---- MODULE Spec2Model ----
(***************************************************************************)
(* Pass-join index (passjoin/passjoin.py): an inverted index over the      *)
(* segments of the vocabulary words, queried with the multi-match-aware    *)
(* substring selection, each hit verified by a caller-supplied distance    *)
(* function.                                                               *)
(*                                                                         *)
(* A word is a sequence of one-character strings.  One Passjoin object is  *)
(* modelled: its constructor arguments are chosen in Init, Construct is    *)
(* __init__, Query(w) is get_word_variations(w).                           *)
(***************************************************************************)
EXTENDS Integers, Sequences, FiniteSets, TLC

\* ------------------------------------------------------------------ bounds
\* Longest word of a vocabulary of several words, and longest query on it.
MaxLen == 1
\* Longest vocabulary list (with repetitions) handed to the constructor.
MaxWords == 2
\* Largest distance threshold handed to the constructor.
MaxT == 2
\* Longest word and longest query of the one-word vocabularies (SpecLong).
LongLen == 3

Chars == {"a", "b"}

RECURSIVE WordsUpTo(_)
WordsUpTo(n) ==
    IF n = 0 THEN {<< >>}
    ELSE LET shorter == WordsUpTo(n - 1)
         IN  shorter \cup {Append(w, c) : w \in shorter, c \in Chars}

RECURSIVE ListsUpTo(_, _)
ListsUpTo(n, W) ==
    IF n = 0 THEN {<< >>}
    ELSE LET shorter == ListsUpTo(n - 1, W)
         IN  shorter \cup {Append(l, w) : l \in shorter, w \in W}

Range(s) == {s[k] : k \in 1..Len(s)}
Max(a, b) == IF a >= b THEN a ELSE b
Min(a, b) == IF a <= b THEN a ELSE b

\* ------------------------------------------------------- python primitives
\* a // b of Python: floor division, also for a negative divisor (b # 0).
FloorDiv(a, b) == IF b > 0 THEN a \div b ELSE (-a) \div (-b)

\* word[start:stop] of Python: a negative bound counts from the end, and
\* both bounds are clamped to the word.
SliceBound(n, k) == IF k < 0 THEN Max(k + n, 0) ELSE Min(k, n)
Slice(word, start, stop) ==
    LET lo == SliceBound(Len(word), start)
        hi == SliceBound(Len(word), stop)
    IN  IF lo >= hi THEN << >> ELSE SubSeq(word, lo + 1, hi)

\* dict.get(key, default) of Python: no entry is created on a miss.
Lookup(mapping, key, default) ==
    IF key \in DOMAIN mapping THEN mapping[key] ELSE default

EmptyMap == [k \in {} |-> {}]

\* ------------------------------------------------- the distance functions
Min3(a, b, c) == Min(a, Min(b, c))

\* One row of the edit-distance table from the row before it.
RECURSIVE LevRow(_, _, _, _)
LevRow(prev, row, ch, b) ==
    IF Len(row) = Len(b) + 1 THEN row
    ELSE LET j == Len(row)
             cost == IF b[j] = ch THEN 0 ELSE 1
         IN  LevRow(prev,
                    Append(row, Min3(prev[j + 1] + 1, row[j] + 1, prev[j] + cost)),
                    ch, b)

RECURSIVE LevRows(_, _, _, _)
LevRows(a, b, i, prev) ==
    IF i > Len(a) THEN prev[Len(b) + 1]
    ELSE LevRows(a, b, i + 1, LevRow(prev, <<i>>, a[i], b))

\* Levenshtein.distance: unit-cost insert/delete/substitute edit distance.
Levenshtein(a, b) == LevRows(a, b, 1, [k \in 1..(Len(b) + 1) |-> k - 1])

\* Hamming distance, a distance function that is partial: it is defined on
\* words of equal length only, and raises ValueError on the others.
Hamming(a, b) == Cardinality({k \in 1..Len(a) : a[k] # b[k]})
HammingRaises(a, b) == Len(a) # Len(b)

DistanceFunctions == {"levenshtein", "hamming"}

VARIABLES
    words,              \* the constructor's words argument (a list)
    max_distance,       \* self._max_distance
    distance_function,  \* self._distance_function
    status,             \* "new", "built", or "failed" (__init__ raised)
    index,              \* self._inverted_index_by_length
    queried,            \* get_word_variations has been called
    query_word,         \* its last argument
    variations,         \* its last return value (empty when it raised)
    error               \* the exception the last call raised, or "none"

vars == <<words, max_distance, distance_function, status, index,
          queried, query_word, variations, error>>

\* self._distance_function(a, b): whether the call raises, and its value.
DistanceRaises(a, b) == distance_function = "hamming" /\ HammingRaises(a, b)
Distance(a, b) ==
    IF distance_function = "levenshtein" THEN Levenshtein(a, b) ELSE Hamming(a, b)

\* ------------------------------------------------------ segment partitions
\* segments_number = self._max_distance + 1; word_length // segments_number
\* raises ZeroDivisionError when it is 0.
SegmentsNumber == max_distance + 1
PartitionsRaise == SegmentsNumber = 0

\* range(n) of Python as the sequence 0, 1, ..., n-1 (empty for n <= 0).
PyRange(n) == [k \in 1..n |-> k - 1]

\* Mutant of ComputePartitions: the large segments placed first.
ComputePartitionsLargeFirst(word_length) ==
    LET segments_number == SegmentsNumber
        small_segments_length == FloorDiv(word_length, segments_number)
        large_segments_length == small_segments_length + 1
        large_segments_number == word_length - small_segments_length * segments_number
        small_segments_number == segments_number - large_segments_number
        large_range == PyRange(large_segments_number)
        large_partitions ==
            [k \in DOMAIN large_range |->
                <<large_range[k], large_range[k] * large_segments_length,
                  large_segments_length>>]
        offset == large_segments_number * large_segments_length
        small_range == PyRange(small_segments_number)
        small_partitions ==
            [k \in DOMAIN small_range |->
                <<large_segments_number + small_range[k],
                  offset + small_range[k] * small_segments_length,
                  small_segments_length>>]
    IN  large_partitions \o small_partitions

\* _compute_partitions: the list of (index, start, length) of the segments
\* of a word of the given length (SegmentsNumber # 0).
ComputePartitions(word_length) ==
    LET segments_number == SegmentsNumber
        small_segments_length == FloorDiv(word_length, segments_number)
        large_segments_length == small_segments_length + 1
        large_segments_number == word_length - small_segments_length * segments_number
        small_segments_number == segments_number - large_segments_number
        small_range == PyRange(small_segments_number)
        small_partitions ==
            [k \in DOMAIN small_range |->
                <<small_range[k], small_range[k] * small_segments_length,
                  small_segments_length>>]
        offset == small_segments_number * small_segments_length
        large_range == PyRange(large_segments_number)
        large_partitions ==
            [k \in DOMAIN large_range |->
                <<small_segments_number + large_range[k],
                  offset + large_range[k] * large_segments_length,
                  large_segments_length>>]
    IN  small_partitions \o large_partitions

\* Mutant of GenerateSegments: the slice has no end, word[start:].
GenerateSegmentsOpenEnded(word) ==
    LET partitions == ComputePartitions(Len(word))
    IN  [k \in DOMAIN partitions |->
            <<partitions[k][1], Slice(word, partitions[k][2], Len(word))>>]

\* _generate_segments: the index keys (i, segment text) of a word.
GenerateSegments(word) ==
    LET partitions == ComputePartitions(Len(word))
    IN  [k \in DOMAIN partitions |->
            <<partitions[k][1],
              Slice(word, partitions[k][2], partitions[k][2] + partitions[k][3])>>]

\* ------------------------------------------------------ index construction
\* Mutant of IndexAdd: the candidate set is assigned, not added to.
IndexAddOverwrite(idx, length, key, word) ==
    LET bucket == Lookup(idx, length, EmptyMap)
        bucket2 == [k \in DOMAIN bucket \cup {key} |->
                        IF k = key THEN {word} ELSE bucket[k]]
    IN  [l \in DOMAIN idx \cup {length} |->
            IF l = length THEN bucket2 ELSE idx[l]]

\* inverted_index_by_length[length][key].add(word), on nested defaultdicts:
\* a missing length or key is created on the way.
IndexAdd(idx, length, key, word) ==
    LET bucket == Lookup(idx, length, EmptyMap)
        candidates == Lookup(bucket, key, {})
        bucket2 == [k \in DOMAIN bucket \cup {key} |->
                        IF k = key THEN candidates \cup {word} ELSE bucket[k]]
    IN  [l \in DOMAIN idx \cup {length} |->
            IF l = length THEN bucket2 ELSE idx[l]]

\* for key in self._generate_segments(word): ... .add(word)
RECURSIVE AddKeys(_, _, _, _)
AddKeys(idx, keys, k, word) ==
    IF k > Len(keys) THEN idx
    ELSE AddKeys(IndexAdd(idx, Len(word), keys[k], word), keys, k + 1, word)

\* for word in words: ...
RECURSIVE AddWords(_, _, _)
AddWords(idx, ws, n) ==
    IF n > Len(ws) THEN idx
    ELSE AddWords(AddKeys(idx, GenerateSegments(ws[n]), 1, ws[n]), ws, n + 1)

\* _build_inverted_index_by_length (when no partition raises).
BuildInvertedIndexByLength(ws) == AddWords(EmptyMap, ws, 1)

\* The loop reaches _compute_partitions only with a word to index.
BuildRaises(ws) == ws # << >> /\ PartitionsRaise

\* ------------------------------------------------------------- the query
\* _candidates_word_length_range: range(max(0, n - T), n + T + 1).
CandidatesWordLengthRange(word) ==
    Max(0, Len(word) - max_distance) .. (Len(word) + max_distance)

\* Mutant of MinimumStartPosition: the right-side perspective is one off.
MinimumStartPositionOffByOne(length_delta, segment_index, segment_position) ==
    LET start_left == segment_position - segment_index
        start_right == segment_position + length_delta
                           - (max_distance - segment_index) + 1
        start_lower == 0
    IN  Max(start_left, Max(start_right, start_lower))

\* _minimum_start_position
MinimumStartPosition(length_delta, segment_index, segment_position) ==
    LET start_left == segment_position - segment_index
        start_right == segment_position + length_delta
                           - (max_distance - segment_index)
        start_lower == 0
    IN  Max(start_left, Max(start_right, start_lower))

\* Mutant of MaximumStartPosition: the upper bound |w| - l is left out.
MaximumStartPositionUnbounded(length_delta, segment_index, word_length, segment_position, segment_length) ==
    LET end_left == segment_position + segment_index
        end_right == segment_position + length_delta
                         + (max_distance - segment_index)
    IN  Min(end_left, end_right)

\* _maximum_start_position
MaximumStartPosition(length_delta, segment_index, word_length, segment_position, segment_length) ==
    LET end_left == segment_position + segment_index
        end_right == segment_position + length_delta
                         + (max_distance - segment_index)
        end_upper == word_length - segment_length
    IN  Min(end_left, Min(end_right, end_upper))

\* The start positions _substrings_selection runs over:
\* range(min_start_position, max_start_position + 1).
StartPositions(word, candidate_length, segment_index, segment_position, segment_length) ==
    LET word_length == Len(word)
        length_delta == word_length - candidate_length
        min_start_position ==
            MinimumStartPosition(length_delta, segment_index, segment_position)
        max_start_position ==
            MaximumStartPosition(length_delta, segment_index, word_length,
                                 segment_position, segment_length)
    IN  [k \in 1..(max_start_position - min_start_position + 1) |->
            min_start_position + k - 1]

\* Mutant of SubstringsSelection: empty substrings are not probed.
SubstringsSelectionSkipEmpty(word, candidate_length, segment_index, segment_position, segment_length) ==
    LET positions == StartPositions(word, candidate_length, segment_index,
                                    segment_position, segment_length)
        nonempty(pos) == Slice(word, pos, pos + segment_length) # << >>
        kept == SelectSeq(positions, nonempty)
    IN  [k \in DOMAIN kept |-> Slice(word, kept[k], kept[k] + segment_length)]

\* _substrings_selection: the list of probes, one per start position.
SubstringsSelection(word, candidate_length, segment_index, segment_position, segment_length) ==
    LET positions == StartPositions(word, candidate_length, segment_index,
                                    segment_position, segment_length)
    IN  [k \in DOMAIN positions |->
            Slice(word, positions[k], positions[k] + segment_length)]

\* The candidates one partition of one candidate length retrieves:
\* inverted_index.get((partition_index, substring), []) over its probes.
PartitionCandidates(inverted_index, word, candidate_length, partition) ==
    LET substrings == SubstringsSelection(word, candidate_length,
                                          partition[1], partition[2], partition[3])
    IN  UNION {Lookup(inverted_index, <<partition[1], substrings[k]>>, {}) :
                 k \in DOMAIN substrings}

\* Every candidate the loops of get_word_variations hand to the distance
\* function; a candidate length absent from the index is skipped.
Candidates(idx, word) ==
    UNION {UNION {PartitionCandidates(idx[candidate_length], word,
                                      candidate_length, partition) :
                    partition \in Range(ComputePartitions(candidate_length))} :
             candidate_length \in CandidatesWordLengthRange(word) \cap DOMAIN idx}

\* Mutant of Accepts: a candidate is added without the distance check.
AcceptsUnverified(word, candidate) == TRUE

\* distance(word, candidate) <= max_distance, for a call that returns.
Accepts(word, candidate) ==
    /\ ~DistanceRaises(word, candidate)
    /\ Distance(word, candidate) <= max_distance

\* Mutant of QueryRaises: the exception is caught and the candidate skipped.
QueryRaisesSwallowed(idx, word) == FALSE

\* get_word_variations raises when a distance call does: nothing catches it.
QueryRaises(idx, word) ==
    \E candidate \in Candidates(idx, word) : DistanceRaises(word, candidate)

\* The set get_word_variations returns (when no distance call raises).
GetWordVariations(idx, word) ==
    {candidate \in Candidates(idx, word) : Accepts(word, candidate)}

\* Mutant of IndexAfterQuery: the defaultdict is subscripted, which creates
\* an empty bucket for every candidate length it does not hold.
IndexAfterQuerySubscript(idx, word) ==
    [l \in DOMAIN idx \cup CandidatesWordLengthRange(word) |->
        Lookup(idx, l, EmptyMap)]

\* The index after a query: self._inverted_index_by_length.get(...) and
\* inverted_index.get(...) read the defaultdicts without creating entries.
IndexAfterQuery(idx, word) == idx

\* -------------------------------------------------------------- the object
Vocabularies == ListsUpTo(MaxWords, WordsUpTo(MaxLen))
LongVocabularies == ListsUpTo(1, WordsUpTo(LongLen))
Thresholds == (-2)..MaxT

InitWith(V) ==
    /\ words \in V
    /\ max_distance \in Thresholds
    /\ distance_function \in DistanceFunctions
    /\ status = "new"
    /\ index = EmptyMap
    /\ queried = FALSE
    /\ query_word = << >>
    /\ variations = {}
    /\ error = "none"

Init == InitWith(Vocabularies)
InitLong == InitWith(LongVocabularies)

\* Passjoin.__init__
Construct ==
    /\ status = "new"
    /\ IF BuildRaises(words)
       THEN /\ status' = "failed"
            /\ error' = "ZeroDivisionError"
            /\ index' = index
       ELSE /\ status' = "built"
            /\ error' = "none"
            /\ index' = BuildInvertedIndexByLength(words)
    /\ UNCHANGED <<words, max_distance, distance_function,
                   queried, query_word, variations>>

\* Passjoin.get_word_variations(word)
Query(word) ==
    /\ status = "built"
    /\ queried' = TRUE
    /\ query_word' = word
    /\ IF QueryRaises(index, word)
       THEN /\ error' = "ValueError"
            /\ variations' = {}
       ELSE /\ error' = "none"
            /\ variations' = GetWordVariations(index, word)
    /\ index' = IndexAfterQuery(index, word)
    /\ UNCHANGED <<words, max_distance, distance_function, status>>

Next ==
    \/ Construct
    \/ \E word \in WordsUpTo(MaxLen) : Query(word)

NextLong ==
    \/ Construct
    \/ \E word \in WordsUpTo(LongLen) : Query(word)

Spec == Init /\ [][Next]_vars
SpecLong == InitLong /\ [][NextLong]_vars

\* ================================================================ claims
Built == status = "built"
Vocabulary == Range(words)

\* The text of segment i (0-based) of a word, read off its partition.
SegmentText(word, i) ==
    LET partition == ComputePartitions(Len(word))[i + 1]
    IN  SubSeq(word, partition[2] + 1, partition[2] + partition[3])

\* ---------------------------------------------------------------- C1
\* C1: no false negatives.  With the exact unit-cost edit distance as the
\* distance function and T >= 0, after a query for any word w (the empty
\* word and words shorter than T+1 included), every vocabulary word within
\* distance T of w is in the returned set.
C1_NoFalseNegatives ==
    (Built /\ queried /\ max_distance >= 0 /\ distance_function = "levenshtein")
        => \A c \in Vocabulary :
               Levenshtein(query_word, c) <= max_distance => c \in variations

\* A query shorter than T+1 whose match is found through a different length.
C1_Witness ==
    /\ Built /\ queried /\ distance_function = "levenshtein"
    /\ max_distance = 2
    /\ Len(query_word) = 1
    /\ \E c \in Vocabulary :
          /\ Len(c) = 3
          /\ Levenshtein(query_word, c) = 2
          /\ c \in variations

\* ---------------------------------------------------------------- C2
\* C2: no false positives.  Every word a query returns is a vocabulary word
\* on which the supplied distance function returned a value <= T.
C2_NoFalsePositives ==
    (Built /\ queried)
        => \A c \in variations :
               /\ c \in Vocabulary
               /\ ~DistanceRaises(query_word, c)
               /\ Distance(query_word, c) <= max_distance

\* A returned word of another length than the query, at distance T exactly.
C2_Witness ==
    /\ Built /\ queried /\ error = "none"
    /\ max_distance = 2
    /\ Len(query_word) = 3
    /\ \E c \in variations :
          /\ Len(c) = 2
          /\ Distance(query_word, c) = 2

\* ---------------------------------------------------------------- C3
\* C3: constructing with a negative T is rejected with an input-validation
\* error (ValueError), for every vocabulary, and no index is built.
C3_NegativeRejected ==
    (status # "new" /\ max_distance < 0)
        => /\ status = "failed"
           /\ error = "ValueError"
           /\ index = EmptyMap

\* ---------------------------------------------------------------- C4
\* C4: once built, the index is never changed by a query (no length bucket,
\* key or candidate set added, removed or modified), the object stays
\* usable, and asking the same word again gives the same outcome.
C4_IndexReadOnly ==
    [][Built =>
          /\ index' = index
          /\ status' = "built"
          /\ (queried /\ query_word' = query_word
                => variations' = variations /\ error' = error)]_vars

\* A miss on a key absent from an existing length bucket, after which the
\* index is still the one the constructor built.
C4_Witness ==
    /\ Built /\ queried
    /\ max_distance = 0
    /\ Len(query_word) \in DOMAIN index
    /\ <<0, query_word>> \notin DOMAIN index[Len(query_word)]
    /\ variations = {}
    /\ index = BuildInvertedIndexByLength(words)

\* ---------------------------------------------------------------- C5
\* C5: the index depends only on the set of vocabulary words.  Exchanging
\* any two list positions, repeating any word and reversing the list all
\* build the index this object holds, and a query answers as it would on
\* the index built from the reversed list.
Swap(ws, i, j) ==
    [k \in 1..Len(ws) |-> IF k = i THEN ws[j] ELSE IF k = j THEN ws[i] ELSE ws[k]]
Reverse(ws) == [k \in 1..Len(ws) |-> ws[Len(ws) + 1 - k]]

C5_OrderAndRepetitionIrrelevant ==
    Built =>
        /\ \A i, j \in 1..Len(words) :
               i < j => BuildInvertedIndexByLength(Swap(words, i, j)) = index
        /\ \A i \in 1..Len(words) :
               /\ BuildInvertedIndexByLength(Append(words, words[i])) = index
               /\ BuildInvertedIndexByLength(<<words[i]>> \o words) = index
        /\ \A i, j \in 1..Len(words) :
               (i < j /\ words[i] = words[j])
                   => BuildInvertedIndexByLength(
                          SubSeq(words, 1, j - 1) \o SubSeq(words, j + 1, Len(words)))
                      = index
        /\ (queried /\ error = "none")
               => variations =
                    GetWordVariations(BuildInvertedIndexByLength(Reverse(words)),
                                      query_word)

\* Two different words that share an index key, so that the order of
\* insertion into one candidate set is at stake.
C5_Witness ==
    /\ Built /\ queried
    /\ Len(words) = 2
    /\ words[1] # words[2]
    /\ \E l \in DOMAIN index : \E key \in DOMAIN index[l] :
          index[l][key] = {words[1], words[2]}
    /\ variations = {words[1], words[2]}

\* ---------------------------------------------------------------- C6
\* C6: when the distance function raises on a pair the query reaches, the
\* query raises that error; it never returns a set that skips the pair.
\* A vocabulary word is reached when one of its segments is a probe of the
\* query word at the word's length.
Reached(word, c) ==
    /\ Len(c) \in CandidatesWordLengthRange(word)
    /\ \E k \in 1..Len(ComputePartitions(Len(c))) :
          LET partition == ComputePartitions(Len(c))[k]
              positions == StartPositions(word, Len(c), partition[1],
                                          partition[2], partition[3])
          IN  \E n \in DOMAIN positions :
                 Slice(word, positions[n], positions[n] + partition[3])
                   = SubSeq(c, partition[2] + 1, partition[2] + partition[3])

C6_DistanceFailurePropagates ==
    (Built /\ queried)
        => ((\E c \in Vocabulary :
                Reached(query_word, c) /\ DistanceRaises(query_word, c))
              <=> error = "ValueError")

\* A query that reaches one word the distance accepts and one it fails on.
C6_Witness ==
    /\ Built /\ queried /\ error = "ValueError"
    /\ \E c, d \in Vocabulary :
          /\ Reached(query_word, c) /\ DistanceRaises(query_word, c)
          /\ Reached(query_word, d) /\ Accepts(query_word, d)

\* ---------------------------------------------------------------- C7
\* C7: for every word length L >= 0 and T >= 0, _compute_partitions(L) is
\* T+1 descriptors, indexed 0..T in order, the first at offset 0, each
\* ending where the next starts, the last ending at L, each of length
\* floor(L/(T+1)) or one more, the shorter ones before the longer ones.
PartitionLengths == 0..(LongLen + MaxT)

C7_PartitionsCoverWord ==
    max_distance >= 0 =>
        \A L \in PartitionLengths :
            LET P == ComputePartitions(L)
                n == max_distance + 1
            IN  /\ Len(P) = n
                /\ \A k \in 1..n : P[k][1] = k - 1
                /\ P[1][2] = 0
                /\ \A k \in 1..(n - 1) : P[k][2] + P[k][3] = P[k + 1][2]
                /\ P[n][2] + P[n][3] = L
                /\ \A k \in 1..n : P[k][3] \in {L \div n, (L \div n) + 1}
                /\ \A k \in 1..(n - 1) : P[k][3] <= P[k + 1][3]
                /\ (L < n => \E k \in 1..n : P[k][3] = 0)

\* A built index holding a word shorter than T+1 next to its segments: two
\* empty ones and then the whole word.
C7_Witness ==
    /\ Built
    /\ max_distance = 2
    /\ ComputePartitions(1) = << <<0, 0, 0>>, <<1, 0, 0>>, <<2, 0, 1>> >>
    /\ 1 \in DOMAIN index
    /\ \E w \in Vocabulary :
          DOMAIN index[1] = {<<0, << >> >>, <<1, << >> >>, <<2, w>>}

\* ---------------------------------------------------------------- C8
\* C8: after construction with T >= 0, the candidate set stored under
\* index[L][(i, s)] is exactly the set of vocabulary words of length L whose
\* i-th segment is s (no entry when there is none); every vocabulary word
\* is stored under exactly T+1 keys, all of them in its own length bucket.
Stored(L, key) ==
    IF L \in DOMAIN index /\ key \in DOMAIN index[L] THEN index[L][key] ELSE {}

C8_IndexContent ==
    (Built /\ max_distance >= 0) =>
        /\ \A L \in 0..MaxLen : \A i \in 0..max_distance :
               \A s \in WordsUpTo(MaxLen) :
                   Stored(L, <<i, s>>)
                     = {w \in Vocabulary : Len(w) = L /\ SegmentText(w, i) = s}
        /\ \A L \in DOMAIN index :
               /\ L \in {Len(w) : w \in Vocabulary}
               /\ \A key \in DOMAIN index[L] :
                      /\ key[1] \in 0..max_distance
                      /\ key[2] \in WordsUpTo(MaxLen)
                      /\ index[L][key] # {}
        /\ \A w \in Vocabulary :
               /\ Cardinality({key \in DOMAIN index[Len(w)] :
                                 w \in index[Len(w)][key]})
                    = max_distance + 1
               /\ \A L \in DOMAIN index : \A key \in DOMAIN index[L] :
                      w \in index[L][key] => L = Len(w)

\* A candidate set of two words under a shared segment, in an index that
\* also keeps a bucket of another length.
C8_Witness ==
    /\ Built
    /\ max_distance = 1
    /\ Cardinality(Vocabulary) = 2
    /\ Stored(1, <<0, << >> >>) = Vocabulary
    /\ \A w \in Vocabulary : Stored(1, <<1, w>>) = {w}

\* ---------------------------------------------------------------- C9
\* The probes and retrieved candidates of the zero-length descriptors of
\* the candidate lengths of the last query.
ZeroLengthDescriptors ==
    {<<L, partition>> \in
        {<<L, partition>> : L \in CandidatesWordLengthRange(query_word),
                            partition \in UNION {Range(ComputePartitions(K)) :
                                K \in CandidatesWordLengthRange(query_word)}} :
        partition \in Range(ComputePartitions(L)) /\ partition[3] = 0}

Probes(L, partition) ==
    SubstringsSelection(query_word, L, partition[1], partition[2], partition[3])

RetrievesWholeLength(L, partition) ==
    L \in DOMAIN index
        => PartitionCandidates(index[L], query_word, L, partition)
             = {c \in Vocabulary : Len(c) = L}

\* C9 as stated: a zero-length descriptor yields exactly one probe, the
\* empty string, and it retrieves every indexed word of its length.
C9_SingleEmptyProbe ==
    (Built /\ queried /\ max_distance >= 0) =>
        \A d \in ZeroLengthDescriptors :
            /\ Probes(d[1], d[2]) = << << >> >>
            /\ RetrievesWholeLength(d[1], d[2])

\* C9 (amended): a zero-length descriptor yields at least one probe, one
\* per start position of its window, every one of them the empty string,
\* and its lookup retrieves every indexed word of its length.
C9_EmptyProbesRetrieveLength ==
    (Built /\ queried /\ max_distance >= 0) =>
        \A d \in ZeroLengthDescriptors :
            /\ Len(Probes(d[1], d[2])) >= 1
            /\ \A k \in 1..Len(Probes(d[1], d[2])) : Probes(d[1], d[2])[k] = << >>
            /\ RetrievesWholeLength(d[1], d[2])

\* A zero-length descriptor probed at two start positions, whose lookup
\* hands the indexed word of that length to the distance function.
C9_Witness ==
    /\ Built /\ queried
    /\ max_distance = 2
    /\ Len(query_word) = 1
    /\ 1 \in DOMAIN index
    /\ <<1, <<1, 0, 0>> >> \in ZeroLengthDescriptors
    /\ Probes(1, <<1, 0, 0>>) = << << >>, << >> >>
    /\ PartitionCandidates(index[1], query_word, 1, <<1, 0, 0>>) = Vocabulary
    /\ Vocabulary # {}

\* --------------------------------------------------------------- C10
\* C10: for every candidate length of a query word w and every descriptor
\* (i, p, l) of that length, every start position of the window is >= 0 and
\* at most |w| - l, so that each probe is the l characters of w from there.
C10_ProbesInsideWord ==
    (Built /\ queried /\ max_distance >= 0) =>
        \A L \in CandidatesWordLengthRange(query_word) :
            \A partition \in Range(ComputePartitions(L)) :
                LET positions == StartPositions(query_word, L, partition[1],
                                                partition[2], partition[3])
                    probes == Probes(L, partition)
                IN  /\ Len(probes) = Len(positions)
                    /\ \A k \in 1..Len(positions) :
                           /\ 0 <= positions[k]
                           /\ positions[k] + partition[3] <= Len(query_word)
                           /\ Len(probes[k]) = partition[3]
                           /\ probes[k] = SubSeq(query_word, positions[k] + 1,
                                                 positions[k] + partition[3])

\* A window that only the bounds of the word close: the lower bound 0 and
\* the upper bound |w| - l are both stricter than the two perspectives.
C10_Witness ==
    /\ Built /\ queried /\ max_distance >= 0
    /\ \E L \in CandidatesWordLengthRange(query_word) \cap DOMAIN index :
          \E partition \in Range(ComputePartitions(L)) :
              LET delta == Len(query_word) - L
                  i == partition[1]
                  p == partition[2]
                  l == partition[3]
              IN  /\ Len(Probes(L, partition)) >= 1
                  /\ Len(query_word) - l < Min(p + i, p + delta + (max_distance - i))

====
